---------------------------- MODULE Spec2Model ----------------------------
(***************************************************************************)
(* Artists pallet v2 (Allfeat): the artist registry as a state machine.    *)
(*                                                                         *)
(* State: the two storage maps of the pallet (ArtistOf, ArtistNameOf), the *)
(* free and reserved balance of every account (the Currency the pallet    *)
(* reserves the deposit from), the event log, the block number, and the    *)
(* outcome of the last dispatched call.                                    *)
(*                                                                         *)
(* Every dispatchable is a pure operator from a storage value to a result  *)
(* and the storage as the body left it when it returned; the action that   *)
(* dispatches it commits that storage only when the result is Ok, as the   *)
(* storage layer around every #[pallet::call] does.                        *)
(*                                                                         *)
(* Option<T> is a sequence of length at most one: None is <<>>, Some(x) is *)
(* <<x>>.                                                                  *)
(***************************************************************************)
EXTENDS Integers, Sequences, FiniteSets, TLC

VARIABLES artistOf, artistNameOf, free, reserved, events, now, last

vars == <<artistOf, artistNameOf, free, reserved, events, now, last>>

-----------------------------------------------------------------------------
(* Configuration (trait Config) and the bounds of the model.               *)

\* BaseDeposit of the test runtime.
BaseDeposit == 5

\* UnregisterPeriod, MaxGenres, MaxAssets: the pallet is generic in them; the
\* model instantiates them with small values.
UnregisterPeriod == 2

MaxGenres == 2

MaxAssets == 2

\* The block number stops advancing here.
MaxTime == 3

\* Calls are dispatched only while the event log is shorter than this.
MaxEvents == 3

\* Genesis balance of the funded accounts of the test runtime.
FundedBalance == 100

\* Genesis balance of an account that can pay BaseDeposit once, not twice.
TightBalance == 7

\* Genesis balance of an account that cannot pay BaseDeposit.
PoorBalance == 3

Owners == {"o1", "o2", "o3"}

InitialBalance(o) ==
    CASE o = "o1" -> FundedBalance
      [] o = "o2" -> TightBalance
      [] o = "o3" -> PoorBalance

Names == {"n1", "n2"}

GenreTags == {"g1", "g2", "g3"}

Contents == {"x1", "x2", "x3"}

-----------------------------------------------------------------------------
(* Option, results.                                                        *)

None == <<>>

Some(x) == <<x>>

Ok == "Ok"

OptionOf(S) == {None} \cup {Some(x) : x \in S}

\* All sequences over S of length at most n.
SeqUpTo(S, n) == UNION {[1..k -> S] : k \in 0..n}

Contains(s, e) == \E i \in 1..Len(s) : s[i] = e

\* iter().position(): the index of the first element equal to e, 0 if none.
Position(s, e) ==
    IF Contains(s, e) THEN CHOOSE i \in 1..Len(s) : s[i] = e /\ \A j \in 1..(i - 1) : s[j] # e
    ELSE 0

\* Vec::remove(pos): the elements after pos shift left.
RemoveAt(s, pos) == SubSeq(s, 1, pos - 1) \o SubSeq(s, pos + 1, Len(s))

-----------------------------------------------------------------------------
(* Content Integrity Layer: T::Hashing::hash.  A fixed function from       *)
(* contents to fingerprints; it is not injective ("x1" and "x3" collide),  *)
(* as no function from arbitrary bytes to 32 bytes is.                     *)

Hash(x) == CASE x = "x1" -> "h1"
             [] x = "x2" -> "h2"
             [] x = "x3" -> "h1"


-----------------------------------------------------------------------------
(* types.rs: the Artist record and its methods.  A method that takes &mut  *)
(* self is an operator returning [res, artist]: the result and self as the *)
(* method left it.                                                         *)

\* Faulty variant of Artist::new: the alias is left out.
artist_new_no_alias(owner, main_name, alias, description, assets, contracts, current_block) ==
    [owner         |-> owner,
     registered_at |-> current_block,
     verified_at   |-> None,
     main_name     |-> main_name,
     alias         |-> None,
     genres        |-> <<>>,
     description   |-> description,
     assets        |-> assets,
     contracts     |-> contracts]

\* Faulty variant of Artist::new: the record is dated at the next block.
artist_new_next_block(owner, main_name, alias, description, assets, contracts, current_block) ==
    [owner         |-> owner,
     registered_at |-> current_block + 1,
     verified_at   |-> None,
     main_name     |-> main_name,
     alias         |-> alias,
     genres        |-> <<>>,
     description   |-> description,
     assets        |-> assets,
     contracts     |-> contracts]

\* Faulty variant of Artist::new: registered_at is left at the default block
\* number.
artist_new_block_zero(owner, main_name, alias, description, assets, contracts, current_block) ==
    [owner         |-> owner,
     registered_at |-> 0,
     verified_at   |-> None,
     main_name     |-> main_name,
     alias         |-> alias,
     genres        |-> <<>>,
     description   |-> description,
     assets        |-> assets,
     contracts     |-> contracts]

\* Artist::new: registered_at is the current block, verified_at None, genres
\* empty until set_checked_genres.
artist_new(owner, main_name, alias, description, assets, contracts, current_block) ==
    [owner         |-> owner,
     registered_at |-> current_block,
     verified_at   |-> None,
     main_name     |-> main_name,
     alias         |-> alias,
     genres        |-> <<>>,
     description   |-> description,
     assets        |-> assets,
     contracts     |-> contracts]

\* The loop of set_checked_genres: seen.insert(genre) fails on the first tag
\* already seen.
RECURSIVE all_inserted(_, _)
all_inserted(genres, seen) ==
    IF genres = <<>> THEN TRUE
    ELSE IF Head(genres) \in seen THEN FALSE
    ELSE all_inserted(Tail(genres), seen \cup {Head(genres)})

set_checked_genres(self, genres) ==
    IF ~all_inserted(genres, {}) THEN [res |-> "NotUniqueGenre", artist |-> self]
    ELSE [res |-> Ok, artist |-> [self EXCEPT !.genres = genres]]

\* Faulty variant of add_checked_genres: the pushed genres are stored without
\* the duplicate check.
add_checked_genres_unchecked(self, genre) ==
    IF Len(self.genres) >= MaxGenres THEN [res |-> "Full", artist |-> self]
    ELSE [res |-> Ok, artist |-> [self EXCEPT !.genres = Append(self.genres, genre)]]

\* Faulty variant of add_checked_genres: the duplicate check runs before the
\* push.
add_checked_genres_dup_first(self, genre) ==
    IF Contains(self.genres, genre) THEN [res |-> "NotUniqueGenre", artist |-> self]
    ELSE IF Len(self.genres) >= MaxGenres THEN [res |-> "Full", artist |-> self]
    ELSE [res |-> Ok, artist |-> [self EXCEPT !.genres = Append(self.genres, genre)]]

\* try_push on a clone of self.genres (Full at capacity), then the checked set.
add_checked_genres(self, genre) ==
    IF Len(self.genres) >= MaxGenres THEN [res |-> "Full", artist |-> self]
    ELSE set_checked_genres(self, Append(self.genres, genre))

is_verified(self) == self.verified_at # None

\* Faulty variant of set_alias: a given alias is stored as the main name too.
set_alias_as_name(self, alias) ==
    IF alias # None
    THEN [self EXCEPT !.alias = alias, !.main_name = alias[1]]
    ELSE [self EXCEPT !.alias = alias]

\* Faulty variant of set_alias: None leaves the stored alias in place.
set_alias_keep_some(self, alias) ==
    IF alias # None THEN [self EXCEPT !.alias = alias] ELSE self

set_alias(self, alias) == [self EXCEPT !.alias = alias]

\* Faulty variant of set_description: the description is stored as given,
\* without hashing.
set_description_raw(self, raw_description) ==
    IF raw_description # None
    THEN [self EXCEPT !.description = Some(raw_description[1])]
    ELSE [self EXCEPT !.description = None]

set_description(self, raw_description) ==
    IF raw_description # None
    THEN [self EXCEPT !.description = Some(Hash(raw_description[1]))]
    ELSE [self EXCEPT !.description = None]

\* Faulty variant of add_asset: a hash already stored is refused.
add_asset_checked(self, asset) ==
    IF Len(self.assets) >= MaxAssets THEN [res |-> "Full", artist |-> self]
    ELSE IF Contains(self.assets, Hash(asset))
         THEN [res |-> "NotUniqueAsset", artist |-> self]
    ELSE [res |-> Ok, artist |-> [self EXCEPT !.assets = Append(self.assets, Hash(asset))]]

add_asset(self, asset) ==
    IF Len(self.assets) >= MaxAssets THEN [res |-> "Full", artist |-> self]
    ELSE [res |-> Ok, artist |-> [self EXCEPT !.assets = Append(self.assets, Hash(asset))]]

\* Faulty variant of remove_asset: every occurrence of the hash is removed.
remove_asset_all(self, asset) ==
    LET pos == Position(self.assets, Hash(asset))
    IN  IF pos # 0
        THEN [res |-> Ok,
              artist |-> [self EXCEPT !.assets =
                            SelectSeq(self.assets, LAMBDA h : h # Hash(asset))]]
        ELSE [res |-> "NotFound", artist |-> self]

remove_asset(self, asset) ==
    LET pos == Position(self.assets, Hash(asset))
    IN  IF pos # 0
        THEN [res |-> Ok, artist |-> [self EXCEPT !.assets = RemoveAt(self.assets, pos)]]
        ELSE [res |-> "NotFound", artist |-> self]

\* Faulty variant of remove_genre: the genres are cut at the position found.
remove_genre_truncate(self, genre) ==
    LET pos == Position(self.genres, genre)
    IN  IF pos # 0
        THEN [res |-> Ok, artist |-> [self EXCEPT !.genres = SubSeq(self.genres, 1, pos - 1)]]
        ELSE [res |-> "NotFound", artist |-> self]

remove_genre(self, genre) ==
    LET pos == Position(self.genres, genre)
    IN  IF pos # 0
        THEN [res |-> Ok, artist |-> [self EXCEPT !.genres = RemoveAt(self.genres, pos)]]
        ELSE [res |-> "NotFound", artist |-> self]

\* UpdatableData: [field, op, val]; val is the payload as a sequence (the
\* Option of Alias and Description, the one item of Add and Remove, empty for
\* Clear).
Alias(x) == [field |-> "Alias", op |-> "Set", val |-> x]

Description(x) == [field |-> "Description", op |-> "Set", val |-> x]

GenresAdd(x) == [field |-> "Genres", op |-> "Add", val |-> <<x>>]

GenresRemove(x) == [field |-> "Genres", op |-> "Remove", val |-> <<x>>]

GenresClear == [field |-> "Genres", op |-> "Clear", val |-> <<>>]

AssetsAdd(x) == [field |-> "Assets", op |-> "Add", val |-> <<x>>]

AssetsRemove(x) == [field |-> "Assets", op |-> "Remove", val |-> <<x>>]

AssetsClear == [field |-> "Assets", op |-> "Clear", val |-> <<>>]

\* Faulty variant of Artist::update: clearing the genres clears the assets
\* too.
artist_update_clear_both(self, field) ==
    CASE field.field = "Alias" -> [res |-> Ok, artist |-> set_alias(self, field.val)]
      [] field.field = "Genres" /\ field.op = "Add" -> add_checked_genres(self, field.val[1])
      [] field.field = "Genres" /\ field.op = "Remove" -> remove_genre(self, field.val[1])
      [] field.field = "Genres" /\ field.op = "Clear" ->
            [res |-> Ok, artist |-> [self EXCEPT !.genres = <<>>, !.assets = <<>>]]
      [] field.field = "Description" ->
            [res |-> Ok, artist |-> set_description(self, field.val)]
      [] field.field = "Assets" /\ field.op = "Add" -> add_asset(self, field.val[1])
      [] field.field = "Assets" /\ field.op = "Remove" -> remove_asset(self, field.val[1])
      [] field.field = "Assets" /\ field.op = "Clear" ->
            [res |-> Ok, artist |-> [self EXCEPT !.assets = <<>>]]

\* Artist::update: the match over the variant.
artist_update(self, field) ==
    CASE field.field = "Alias" -> [res |-> Ok, artist |-> set_alias(self, field.val)]
      [] field.field = "Genres" /\ field.op = "Add" -> add_checked_genres(self, field.val[1])
      [] field.field = "Genres" /\ field.op = "Remove" -> remove_genre(self, field.val[1])
      [] field.field = "Genres" /\ field.op = "Clear" ->
            [res |-> Ok, artist |-> [self EXCEPT !.genres = <<>>]]
      [] field.field = "Description" ->
            [res |-> Ok, artist |-> set_description(self, field.val)]
      [] field.field = "Assets" /\ field.op = "Add" -> add_asset(self, field.val[1])
      [] field.field = "Assets" /\ field.op = "Remove" -> remove_asset(self, field.val[1])
      [] field.field = "Assets" /\ field.op = "Clear" ->
            [res |-> Ok, artist |-> [self EXCEPT !.assets = <<>>]]

-----------------------------------------------------------------------------
(* lib.rs: storage, events, and the helpers of the pallet.  A storage      *)
(* value st is [artistOf, artistNameOf, free, reserved, events, now].      *)

NoData == [field |-> "", op |-> "", val |-> <<>>]

ArtistRegistered(id, name) ==
    [kind |-> "ArtistRegistered", id |-> id, name |-> name, new_data |-> NoData]

ArtistUnregistered(id) ==
    [kind |-> "ArtistUnregistered", id |-> id, name |-> "", new_data |-> NoData]

ArtistUpdated(id, new_data) ==
    [kind |-> "ArtistUpdated", id |-> id, name |-> "", new_data |-> new_data]

deposit_event(st, e) == [st EXCEPT !.events = Append(st.events, e)]

\* Faulty variant of reserve: the value leaves the free balance and is not
\* added to the reserved balance.
reserve_withdraws(st, who, value) ==
    IF st.free[who] < value THEN [res |-> "InsufficientBalance", st |-> st]
    ELSE [res |-> Ok, st |-> [st EXCEPT !.free[who] = @ - value]]

\* ReservableCurrency::reserve: moves value from free to reserved, or fails
\* and moves nothing when free is lower than value.
reserve(st, who, value) ==
    IF st.free[who] < value THEN [res |-> "InsufficientBalance", st |-> st]
    ELSE [res |-> Ok,
          st  |-> [st EXCEPT !.free[who] = @ - value, !.reserved[who] = @ + value]]

\* ReservableCurrency::unreserve: moves up to value from reserved to free.
unreserve(st, who, value) ==
    LET actual == IF st.reserved[who] < value THEN st.reserved[who] ELSE value
    IN  [st EXCEPT !.free[who] = @ + actual, !.reserved[who] = @ - actual]

\* The try_for_each of checked_hash_assets over the rest of the batch.
RECURSIVE hash_each(_, _)
hash_each(raw_assets, hashed) ==
    IF raw_assets = <<>> THEN [res |-> Ok, hashed |-> hashed]
    ELSE LET hash == Hash(Head(raw_assets))
         IN  IF Contains(hashed, hash) THEN [res |-> "NotUniqueAsset", hashed |-> hashed]
             ELSE hash_each(Tail(raw_assets), Append(hashed, hash))

\* Faulty variant of checked_hash_assets: the batch is hashed with another
\* function than the one add_asset and remove_asset use.
checked_hash_assets_other(raw_assets) ==
    LET r == hash_each(raw_assets, <<>>)
    IN  [res    |-> r.res,
         hashed |-> [i \in 1..Len(r.hashed) |->
                       IF r.hashed[i] = "h1" THEN "k1" ELSE "k2"]]

checked_hash_assets(raw_assets) == hash_each(raw_assets, <<>>)

get_artist_by_id(st, who) == st.artistOf[who]

\* The getter of ArtistNameOf.
get_artist_by_name(st, name) == st.artistNameOf[name]

\* Faulty variant of can_unregister: the period must be strictly exceeded.
can_unregister_exclusive(st, who) ==
    LET artist_data == get_artist_by_id(st, who)
    IN  IF artist_data = None THEN "NotRegistered"
        ELSE IF is_verified(artist_data[1]) THEN "IsVerified"
        ELSE IF st.now - artist_data[1].registered_at <= UnregisterPeriod THEN "PeriodNotPassed"
        ELSE Ok

\* Faulty variant of can_unregister: verified artists are not refused.
can_unregister_unlocked(st, who) ==
    LET artist_data == get_artist_by_id(st, who)
    IN  IF artist_data = None THEN "NotRegistered"
        ELSE IF st.now - artist_data[1].registered_at < UnregisterPeriod THEN "PeriodNotPassed"
        ELSE Ok

\* Faulty variant of can_unregister: the cooldown is checked before the
\* verification.
can_unregister_period_first(st, who) ==
    LET artist_data == get_artist_by_id(st, who)
    IN  IF artist_data = None THEN "NotRegistered"
        ELSE IF st.now - artist_data[1].registered_at < UnregisterPeriod THEN "PeriodNotPassed"
        ELSE IF is_verified(artist_data[1]) THEN "IsVerified"
        ELSE Ok

\* can_unregister: NotRegistered, then IsVerified, then the cooldown.
can_unregister(st, who) ==
    LET artist_data == get_artist_by_id(st, who)
    IN  IF artist_data = None THEN "NotRegistered"
        ELSE IF is_verified(artist_data[1]) THEN "IsVerified"
        ELSE IF st.now - artist_data[1].registered_at < UnregisterPeriod THEN "PeriodNotPassed"
        ELSE Ok

-----------------------------------------------------------------------------
(* lib.rs: the dispatchables.  Each returns [res, st]: the result and the  *)
(* storage as the body left it when it returned.                           *)

\* Faulty variant of register: the AlreadyRegistered check is missing.
register_unguarded(st, origin, main_name, alias, genres, description, assets) ==
    IF st.artistNameOf[main_name] # None THEN [res |-> "NameUnavailable", st |-> st]
    ELSE
      LET reserved_ == reserve(st, origin, BaseDeposit)
      IN  IF reserved_.res # Ok THEN reserved_
          ELSE
            LET st1    == reserved_.st
                hashed == checked_hash_assets(assets)
            IN  IF hashed.res # Ok THEN [res |-> hashed.res, st |-> st1]
                ELSE
                  LET new_artist == artist_new(origin, main_name, alias,
                                               IF description # None
                                               THEN Some(Hash(description[1]))
                                               ELSE None,
                                               hashed.hashed, <<>>, st1.now)
                      checked    == set_checked_genres(new_artist, genres)
                  IN  IF checked.res # Ok THEN [res |-> checked.res, st |-> st1]
                      ELSE [res |-> Ok,
                            st  |-> deposit_event(
                                      [st1 EXCEPT !.artistOf[origin] = Some(checked.artist)],
                                      ArtistRegistered(origin, main_name))]

\* Faulty variant of register: the genres are checked before the assets are
\* hashed.
register_genres_first(st, origin, main_name, alias, genres, description, assets) ==
    IF st.artistOf[origin] # None THEN [res |-> "AlreadyRegistered", st |-> st]
    ELSE IF st.artistNameOf[main_name] # None THEN [res |-> "NameUnavailable", st |-> st]
    ELSE
      LET reserved_ == reserve(st, origin, BaseDeposit)
      IN  IF reserved_.res # Ok THEN reserved_
          ELSE
            LET st1    == reserved_.st
                hashed == checked_hash_assets(assets)
            IN  IF ~all_inserted(genres, {}) THEN [res |-> "NotUniqueGenre", st |-> st1]
                ELSE IF hashed.res # Ok THEN [res |-> hashed.res, st |-> st1]
                ELSE
                  LET new_artist == artist_new(origin, main_name, alias,
                                               IF description # None
                                               THEN Some(Hash(description[1]))
                                               ELSE None,
                                               hashed.hashed, <<>>, st1.now)
                      checked    == set_checked_genres(new_artist, genres)
                  IN  [res |-> Ok,
                       st  |-> deposit_event(
                                 [st1 EXCEPT !.artistOf[origin] = Some(checked.artist)],
                                 ArtistRegistered(origin, main_name))]

\* Variant of register that also writes the name index: the record is
\* inserted into ArtistNameOf under its main name.
register_indexes_name(st, origin, main_name, alias, genres, description, assets) ==
    IF st.artistOf[origin] # None THEN [res |-> "AlreadyRegistered", st |-> st]
    ELSE IF st.artistNameOf[main_name] # None THEN [res |-> "NameUnavailable", st |-> st]
    ELSE
      LET reserved_ == reserve(st, origin, BaseDeposit)
      IN  IF reserved_.res # Ok THEN reserved_
          ELSE
            LET st1    == reserved_.st
                hashed == checked_hash_assets(assets)
            IN  IF hashed.res # Ok THEN [res |-> hashed.res, st |-> st1]
                ELSE
                  LET new_artist == artist_new(origin, main_name, alias,
                                               IF description # None
                                               THEN Some(Hash(description[1]))
                                               ELSE None,
                                               hashed.hashed, <<>>, st1.now)
                      checked    == set_checked_genres(new_artist, genres)
                  IN  IF checked.res # Ok THEN [res |-> checked.res, st |-> st1]
                      ELSE [res |-> Ok,
                            st  |-> deposit_event(
                                      [st1 EXCEPT !.artistOf[origin] = Some(checked.artist),
                                                  !.artistNameOf[main_name] =
                                                      Some(checked.artist)],
                                      ArtistRegistered(origin, main_name))]

\* Pallet::register.
register(st, origin, main_name, alias, genres, description, assets) ==
    IF st.artistOf[origin] # None THEN [res |-> "AlreadyRegistered", st |-> st]
    ELSE IF st.artistNameOf[main_name] # None THEN [res |-> "NameUnavailable", st |-> st]
    ELSE
      LET reserved_ == reserve(st, origin, BaseDeposit)
      IN  IF reserved_.res # Ok THEN reserved_
          ELSE
            LET st1    == reserved_.st
                hashed == checked_hash_assets(assets)
            IN  IF hashed.res # Ok THEN [res |-> hashed.res, st |-> st1]
                ELSE
                  LET new_artist == artist_new(origin, main_name, alias,
                                               IF description # None
                                               THEN Some(Hash(description[1]))
                                               ELSE None,
                                               hashed.hashed, <<>>, st1.now)
                      checked    == set_checked_genres(new_artist, genres)
                  IN  IF checked.res # Ok THEN [res |-> checked.res, st |-> st1]
                      ELSE [res |-> Ok,
                            st  |-> deposit_event(
                                      [st1 EXCEPT !.artistOf[origin] = Some(checked.artist)],
                                      ArtistRegistered(origin, main_name))]

\* Faulty variant of unregister: the deposit is not returned.
unregister_keeps_deposit(st, origin) ==
    LET can == can_unregister(st, origin)
    IN  IF can # Ok THEN [res |-> can, st |-> st]
        ELSE [res |-> Ok,
              st  |-> deposit_event([st EXCEPT !.artistOf[origin] = None],
                                    ArtistUnregistered(origin))]

\* Faulty variant of unregister: the record is not removed.
unregister_keeps_record(st, origin) ==
    LET can == can_unregister(st, origin)
    IN  IF can # Ok THEN [res |-> can, st |-> st]
        ELSE [res |-> Ok,
              st  |-> deposit_event(unreserve(st, origin, BaseDeposit),
                                    ArtistUnregistered(origin))]

\* Faulty variant of unregister: can_unregister is not consulted.
unregister_unchecked(st, origin) ==
    [res |-> Ok,
     st  |-> deposit_event(
               [unreserve(st, origin, BaseDeposit) EXCEPT !.artistOf[origin] = None],
               ArtistUnregistered(origin))]

\* Faulty variant of unregister: the whole of ArtistOf is cleared instead of
\* the caller's entry.
unregister_removes_all(st, origin) ==
    LET can == can_unregister(st, origin)
    IN  IF can # Ok THEN [res |-> can, st |-> st]
        ELSE [res |-> Ok,
              st  |-> deposit_event(
                        [unreserve(st, origin, BaseDeposit)
                           EXCEPT !.artistOf = [o \in DOMAIN st.artistOf |-> None]],
                        ArtistUnregistered(origin))]

\* Pallet::unregister.
unregister(st, origin) ==
    LET can == can_unregister(st, origin)
    IN  IF can # Ok THEN [res |-> can, st |-> st]
        ELSE [res |-> Ok,
              st  |-> deposit_event(
                        [unreserve(st, origin, BaseDeposit) EXCEPT !.artistOf[origin] = None],
                        ArtistUnregistered(origin))]

\* Faulty variant of update: the event is deposited before artist.update is
\* tried.
update_event_first(st, origin, data) ==
    LET maybe_artist == st.artistOf[origin]
    IN  IF maybe_artist = None THEN [res |-> "NotRegistered", st |-> st]
        ELSE LET updated == artist_update(maybe_artist[1], data)
                 st1     == deposit_event(st, ArtistUpdated(origin, data))
             IN  IF updated.res # Ok THEN [res |-> updated.res, st |-> st1]
                 ELSE [res |-> Ok,
                       st  |-> [st1 EXCEPT !.artistOf[origin] = Some(updated.artist)]]

\* Faulty variant of update: a missing record is passed over with Ok.
update_ignores_missing(st, origin, data) ==
    LET maybe_artist == st.artistOf[origin]
    IN  IF maybe_artist = None
        THEN [res |-> Ok, st |-> deposit_event(st, ArtistUpdated(origin, data))]
        ELSE LET updated == artist_update(maybe_artist[1], data)
             IN  IF updated.res # Ok THEN [res |-> updated.res, st |-> st]
                 ELSE [res |-> Ok,
                       st  |-> deposit_event(
                                 [st EXCEPT !.artistOf[origin] = Some(updated.artist)],
                                 ArtistUpdated(origin, data))]

\* Faulty variant of update: the event carries an added asset as it is stored,
\* hashed.
update_event_stored(st, origin, data) ==
    LET maybe_artist == st.artistOf[origin]
        new_data == IF data.field = "Assets" /\ data.op = "Add"
                    THEN AssetsAdd(Hash(data.val[1]))
                    ELSE data
    IN  IF maybe_artist = None THEN [res |-> "NotRegistered", st |-> st]
        ELSE LET updated == artist_update(maybe_artist[1], data)
             IN  IF updated.res # Ok THEN [res |-> updated.res, st |-> st]
                 ELSE [res |-> Ok,
                       st  |-> deposit_event(
                                 [st EXCEPT !.artistOf[origin] = Some(updated.artist)],
                                 ArtistUpdated(origin, new_data))]

\* Faulty variant of update: a successful update dates the record at the
\* current block.
update_restarts_cooldown(st, origin, data) ==
    LET maybe_artist == st.artistOf[origin]
    IN  IF maybe_artist = None THEN [res |-> "NotRegistered", st |-> st]
        ELSE LET updated == artist_update(maybe_artist[1], data)
             IN  IF updated.res # Ok THEN [res |-> updated.res, st |-> st]
                 ELSE [res |-> Ok,
                       st  |-> deposit_event(
                                 [st EXCEPT !.artistOf[origin] =
                                    Some([updated.artist EXCEPT !.registered_at = st.now])],
                                 ArtistUpdated(origin, data))]

\* Pallet::update: try_mutate writes the record back only when the closure
\* returns Ok.
update(st, origin, data) ==
    LET maybe_artist == st.artistOf[origin]
    IN  IF maybe_artist = None THEN [res |-> "NotRegistered", st |-> st]
        ELSE LET updated == artist_update(maybe_artist[1], data)
             IN  IF updated.res # Ok THEN [res |-> updated.res, st |-> st]
                 ELSE [res |-> Ok,
                       st  |-> deposit_event(
                                 [st EXCEPT !.artistOf[origin] = Some(updated.artist)],
                                 ArtistUpdated(origin, data))]

\* Faulty variant of with_storage_layer: the layer is committed whatever the
\* call returns.
without_storage_layer(st, r) == r.st

\* #[pallet::call]: every dispatchable runs in a storage layer, which is
\* committed when the call returns Ok and discarded when it returns an error.
with_storage_layer(st, r) == IF r.res = Ok THEN r.st ELSE st

-----------------------------------------------------------------------------
(* The state machine.                                                      *)

Storage ==
    [artistOf     |-> artistOf,
     artistNameOf |-> artistNameOf,
     free         |-> free,
     reserved     |-> reserved,
     events       |-> events,
     now          |-> now]

\* The storage after dispatching a call with outcome r, and the call's record.
Dispatched(op, who, r) ==
    LET st == with_storage_layer(Storage, r)
    IN  /\ artistOf' = st.artistOf
        /\ artistNameOf' = st.artistNameOf
        /\ free' = st.free
        /\ reserved' = st.reserved
        /\ events' = st.events
        /\ now' = st.now
        /\ last' = [op |-> op, who |-> who, res |-> r.res]

\* Genesis: no artist, no name, nothing reserved, block 0.
Init ==
    /\ artistOf = [o \in Owners |-> None]
    /\ artistNameOf = [n \in Names |-> None]
    /\ free = [o \in Owners |-> InitialBalance(o)]
    /\ reserved = [o \in Owners |-> 0]
    /\ events = <<>>
    /\ now = 0
    /\ last = [op |-> "genesis", who |-> "", res |-> Ok]

Register(o, main_name, alias, genres, description, assets) ==
    /\ Len(events) < MaxEvents
    /\ Dispatched("register", o, register(Storage, o, main_name, alias, genres, description, assets))

Unregister(o) ==
    /\ Len(events) < MaxEvents
    /\ Dispatched("unregister", o, unregister(Storage, o))

Update(o, data) ==
    /\ Len(events) < MaxEvents
    /\ Dispatched("update", o, update(Storage, o, data))

\* The next block.
Tick ==
    /\ now < MaxTime
    /\ now' = now + 1
    /\ last' = [op |-> "tick", who |-> "", res |-> Ok]
    /\ UNCHANGED <<artistOf, artistNameOf, free, reserved, events>>

\* The external authority verifies a registered artist: verified_at is set
\* to the current block.
Verify(o) ==
    /\ artistOf[o] # None
    /\ artistOf[o][1].verified_at = None
    /\ artistOf' = [artistOf EXCEPT ![o] = Some([@[1] EXCEPT !.verified_at = Some(now)])]
    /\ last' = [op |-> "verify", who |-> o, res |-> Ok]
    /\ UNCHANGED <<artistNameOf, free, reserved, events, now>>

-----------------------------------------------------------------------------
(* Specification Spec: the lifecycle of the records of several accounts    *)
(* ("o3" cannot pay the deposit), with few data.                           *)

LifecycleGenres == {<<>>, <<"g1", "g1">>}

LifecycleAssets == {<<>>, <<"x1", "x3">>}

LifecycleData == {Alias(Some("n1")), AssetsRemove("x1")}

Next ==
    \/ \E o \in Owners, main_name \in Names, genres \in LifecycleGenres,
          assets \in LifecycleAssets :
            Register(o, main_name, None, genres, None, assets)
    \/ \E o \in Owners : Unregister(o)
    \/ \E o \in Owners, data \in LifecycleData : Update(o, data)
    \/ Tick
    \/ \E o \in Owners : Verify(o)

Spec == Init /\ [][Next]_vars

-----------------------------------------------------------------------------
(* Specification SpecData: the data of one record ("o1" registers, "o2"    *)
(* never does) under every variant of update, through its whole life.      *)

DataGenres == {<<>>, <<"g1", "g2">>}

DataAssets == {<<>>, <<"x1">>, <<"x1", "x2">>}

UpdatableData ==
    {Alias(a) : a \in OptionOf({"n2"})}
    \cup {Description(d) : d \in OptionOf({"x1"})}
    \cup {GenresAdd(g) : g \in GenreTags} \cup {GenresRemove(g) : g \in GenreTags}
    \cup {GenresClear}
    \cup {AssetsAdd(x) : x \in Contents} \cup {AssetsRemove(x) : x \in Contents}
    \cup {AssetsClear}

NextData ==
    \/ \E genres \in DataGenres, assets \in DataAssets :
            Register("o1", "n1", None, genres, None, assets)
    \/ \E o \in {"o1", "o2"}, data \in UpdatableData : Update(o, data)
    \/ Unregister("o1")
    \/ (artistOf["o1"] # None /\ Tick)

SpecData == Init /\ [][NextData]_vars

-----------------------------------------------------------------------------
(* Specification SpecVerified: the data of one record ("o1" registers and  *)
(* is verified, "o2" never registers) under every variant of update.       *)

NextVerified ==
    \/ \E genres \in DataGenres, assets \in DataAssets :
            Register("o1", "n1", None, genres, None, assets)
    \/ \E o \in {"o1", "o2"}, data \in UpdatableData : Update(o, data)
    \/ Verify("o1")

SpecVerified == Init /\ [][NextVerified]_vars

-----------------------------------------------------------------------------
(* Properties.                                                             *)

\* The genres and the batches of assets register is called with in C23: none,
\* distinct, the same twice and, for assets, two contents with one hash.
OrderGenres == {<<>>, <<"g1", "g2">>, <<"g1", "g1">>}

OrderAssets == {<<>>, <<"x1", "x2">>, <<"x1", "x1">>, <<"x1", "x3">>}

(* Specification SpecLive: the lifecycle of the records of two accounts    *)
(* with a block number that keeps advancing up to MaxTime; a registration  *)
(* is taken only while its cooldown can elapse before MaxTime.             *)

NextLive ==
    \/ \E o \in {"o1", "o2"}, main_name \in Names :
            /\ now + UnregisterPeriod <= MaxTime
            /\ Register(o, main_name, None, <<>>, None, <<>>)
    \/ \E o \in {"o1", "o2"}, data \in LifecycleData : Update(o, data)
    \/ \E o \in {"o1", "o2"} : Unregister(o)
    \/ Tick
    \/ Verify("o2")

SpecLive == Init /\ [][NextLive]_vars /\ WF_vars(Tick)

-----------------------------------------------------------------------------

HasRecord(o) == artistOf[o] # None

RecordOf(o) == artistOf[o][1]

NoDuplicates(s) == \A i, j \in 1..Len(s) : i # j => s[i] # s[j]

\* C1: a register call by an owner who has a record fails with
\* AlreadyRegistered whatever its arguments, and leaves that owner's record,
\* balance and the event log unchanged; the record stored under an owner's key
\* is that owner's.
C1_AlreadyRegistered ==
    [][\A o \in Owners :
         /\ (last'.op = "register" /\ last'.who = o /\ HasRecord(o))
              => /\ last'.res = "AlreadyRegistered"
                 /\ artistOf'[o] = artistOf[o]
                 /\ free'[o] = free[o]
                 /\ reserved'[o] = reserved[o]
                 /\ events' = events
         /\ artistOf'[o] # None => artistOf'[o][1].owner = o]_vars

\* C1 witness: a registered owner whose free balance no longer covers the
\* deposit registered again and was refused with AlreadyRegistered.
C1_Witness ==
    /\ last = [op |-> "register", who |-> "o2", res |-> "AlreadyRegistered"]
    /\ HasRecord("o2")
    /\ free["o2"] < BaseDeposit

\* C2: no two records of the Owner Index have the same main_name.
C2_UniqueMainName ==
    \A o, p \in Owners :
        (o # p /\ HasRecord(o) /\ HasRecord(p)) => RecordOf(o).main_name # RecordOf(p).main_name

\* C3: the assets of every stored record hold no duplicate fingerprint and at
\* most MaxAssets entries.
C3_AssetsInvariant ==
    \A o \in Owners :
        HasRecord(o) => NoDuplicates(RecordOf(o).assets) /\ Len(RecordOf(o).assets) <= MaxAssets

\* C4: the genres of every stored record hold no duplicate tag and at most
\* MaxGenres entries.
C4_GenresInvariant ==
    \A o \in Owners :
        HasRecord(o) => NoDuplicates(RecordOf(o).genres) /\ Len(RecordOf(o).genres) <= MaxGenres

\* C4 witness: GenresAdd of a tag the record holds was refused with
\* NotUniqueGenre, after a GenresAdd that succeeded.
C4_Witness ==
    /\ last = [op |-> "update", who |-> "o1", res |-> "NotUniqueGenre"]
    /\ \E i \in 1..Len(events) : events[i].kind = "ArtistUpdated" /\ events[i].new_data.op = "Add"
                                   /\ events[i].new_data.field = "Genres"
    /\ Len(RecordOf("o1").genres) >= 1

\* C5: unregister of an unverified record fails with PeriodNotPassed while
\* now - registered_at < UnregisterPeriod and succeeds from
\* now - registered_at = UnregisterPeriod on; no record is removed earlier.
C5_CooldownBoundary ==
    [][\A o \in Owners :
         /\ (last'.op = "unregister" /\ last'.who = o /\ HasRecord(o)
               /\ RecordOf(o).verified_at = None)
              => last'.res = IF now - RecordOf(o).registered_at < UnregisterPeriod
                             THEN "PeriodNotPassed" ELSE Ok
         /\ (HasRecord(o) /\ artistOf'[o] = None)
              => now - RecordOf(o).registered_at >= UnregisterPeriod]_vars

\* C5 witness: unregister succeeded at block UnregisterPeriod, that is after
\* exactly UnregisterPeriod blocks (the record dates from block 0).
C5_Witness ==
    /\ last = [op |-> "unregister", who |-> "o1", res |-> Ok]
    /\ now = UnregisterPeriod
    /\ ~HasRecord("o1")

\* C6: while verified_at of a record is set, unregister by its owner fails
\* with IsVerified at every block and changes nothing; no step removes the
\* record, clears verified_at or releases the deposit.
C6_VerificationLock ==
    [][\A o \in Owners :
         (HasRecord(o) /\ RecordOf(o).verified_at # None)
           => /\ (last'.op = "unregister" /\ last'.who = o)
                   => last'.res = "IsVerified" /\ artistOf'[o] = artistOf[o]
              /\ artistOf'[o] # None
              /\ artistOf'[o][1].verified_at = RecordOf(o).verified_at
              /\ reserved[o] = BaseDeposit
              /\ reserved'[o] = BaseDeposit]_vars

\* C6 witness: unregister was refused with IsVerified although the cooldown
\* had passed.
C6_Witness ==
    /\ last = [op |-> "unregister", who |-> "o1", res |-> "IsVerified"]
    /\ HasRecord("o1")
    /\ now - RecordOf("o1").registered_at >= UnregisterPeriod

\* C7: an update call that returns an error (Full, NotUniqueGenre, NotFound,
\* NotRegistered) returns with the storage as it was before the call: the same
\* records field for field and the same event log.
C7_UpdateAtomic ==
    \A o \in Owners, data \in UpdatableData :
        LET r == update(Storage, o, data)
        IN  /\ r.res \in {Ok, "Full", "NotUniqueGenre", "NotFound", "NotRegistered"}
            /\ r.res # Ok => r.st = Storage /\ with_storage_layer(Storage, r) = Storage

\* C7 witness: an update of a record with MaxGenres genres was refused with
\* Full.
C7_Witness ==
    /\ last = [op |-> "update", who |-> "o1", res |-> "Full"]
    /\ Len(RecordOf("o1").genres) = MaxGenres

\* C8: a register call that fails leaves both indices, every balance and the
\* event log as they were.
C8_RegisterAllOrNothing ==
    [][(last'.op = "register" /\ last'.res # Ok)
         => /\ last'.res \in {"AlreadyRegistered", "NameUnavailable", "InsufficientBalance",
                              "NotUniqueAsset", "NotUniqueGenre"}
            /\ UNCHANGED <<artistOf, artistNameOf, free, reserved, events>>]_vars

\* C8 witness: a register call was refused with NotUniqueGenre, which is
\* found after the deposit was reserved; nothing is reserved and no record
\* exists.
C8_Witness ==
    /\ last = [op |-> "register", who |-> "o1", res |-> "NotUniqueGenre"]
    /\ reserved["o1"] = 0
    /\ free["o1"] = FundedBalance
    /\ ~HasRecord("o1")

\* C9: a successful register moves BaseDeposit from the caller's free to its
\* reserved balance, a successful unregister moves it back, update and a
\* rejected register change no balance; the account that starts with 100 has
\* 95 free while registered and 100 otherwise.
C9_DepositAmounts ==
    [][\A o \in Owners :
         /\ (last'.op = "register" /\ last'.who = o /\ last'.res = Ok)
              => free'[o] = free[o] - BaseDeposit /\ reserved'[o] = reserved[o] + BaseDeposit
         /\ (last'.op = "register" /\ last'.who = o /\ last'.res # Ok)
              => free'[o] = free[o] /\ reserved'[o] = reserved[o]
         /\ (last'.op = "unregister" /\ last'.who = o /\ last'.res = Ok)
              => free'[o] = free[o] + BaseDeposit /\ reserved'[o] = reserved[o] - BaseDeposit
         /\ last'.op = "update" => free' = free /\ reserved' = reserved
         /\ free'["o1"] = IF artistOf'["o1"] # None THEN 95 ELSE 100]_vars

\* C9 witness: the account that started with 100 registered and unregistered,
\* and has 100 free again.
C9_Witness ==
    /\ last = [op |-> "unregister", who |-> "o1", res |-> Ok]
    /\ events[1] = ArtistRegistered("o1", "n1")
    /\ free["o1"] = 100
    /\ reserved["o1"] = 0

\* The names whose record was unregistered, read from the event log.
ReleasedNames ==
    {n \in Names :
        \E i, j \in 1..Len(events) :
            /\ i < j
            /\ events[i].kind = "ArtistRegistered" /\ events[i].name = n
            /\ events[j] = ArtistUnregistered(events[i].id)
            /\ \A k \in (i + 1)..(j - 1) : events[k].id # events[i].id}

\* C10: a successful unregister leaves its caller without a record; unregister
\* and update by an account without a record fail with NotRegistered; and a
\* released main_name can be registered again by any account without a record
\* whose free balance covers BaseDeposit.
C10_UnregistrationLifecycle ==
    /\ [][\A o \in Owners :
            /\ (last'.op = "unregister" /\ last'.who = o /\ last'.res = Ok)
                 => artistOf'[o] = None
            /\ (last'.op \in {"unregister", "update"} /\ last'.who = o /\ ~HasRecord(o))
                 => last'.res = "NotRegistered" /\ artistOf'[o] = None]_vars
    /\ [](\A o \in Owners, n \in ReleasedNames :
            (~HasRecord(o) /\ free[o] >= BaseDeposit)
              => register(Storage, o, n, None, <<>>, None, <<>>).res = Ok)

\* C10 witness: "o1" registered "n1" and unregistered, then "o2" registered
\* "n1".
C10_Witness ==
    /\ last = [op |-> "register", who |-> "o2", res |-> Ok]
    /\ Len(events) = 3
    /\ events[1] = ArtistRegistered("o1", "n1")
    /\ events[2] = ArtistUnregistered("o1")
    /\ events[3] = ArtistRegistered("o2", "n1")
    /\ RecordOf("o2").main_name = "n1"

\* C11: unregister refuses in the order NotRegistered, IsVerified,
\* PeriodNotPassed: a caller without a record gets NotRegistered, a caller
\* with a verified record gets IsVerified even while the cooldown runs,
\* PeriodNotPassed is returned only for an unverified record, and a refused
\* unregister leaves the records, the balances and the event log unchanged.
C11_UnregisterCheckOrder ==
    [][\A o \in Owners :
         (last'.op = "unregister" /\ last'.who = o)
           => /\ last'.res =
                   IF ~HasRecord(o) THEN "NotRegistered"
                   ELSE IF RecordOf(o).verified_at # None THEN "IsVerified"
                   ELSE IF now - RecordOf(o).registered_at < UnregisterPeriod
                        THEN "PeriodNotPassed"
                   ELSE Ok
              /\ last'.res # Ok
                   => UNCHANGED <<artistOf, artistNameOf, free, reserved, events>>]_vars

\* C11 witness: a verified owner whose cooldown still runs called unregister
\* and was refused with IsVerified.
C11_Witness ==
    /\ last = [op |-> "unregister", who |-> "o1", res |-> "IsVerified"]
    /\ HasRecord("o1")
    /\ RecordOf("o1").verified_at # None
    /\ now - RecordOf("o1").registered_at < UnregisterPeriod

\* C12: update by an account without a record fails with NotRegistered for
\* every variant, creates no record, changes no record of another owner and
\* emits no event.
C12_UpdateNotRegistered ==
    /\ [][\A o \in Owners :
            (last'.op = "update" /\ last'.who = o /\ ~HasRecord(o))
              => /\ last'.res = "NotRegistered"
                 /\ UNCHANGED <<artistOf, artistNameOf, free, reserved, events>>]_vars
    /\ [](\A o \in Owners, data \in UpdatableData :
            ~HasRecord(o)
              => LET r == update(Storage, o, data)
                 IN  /\ r.res = "NotRegistered"
                     /\ with_storage_layer(Storage, r) = Storage)

\* C12 witness: while "o1" holds a record, "o2", who holds none, called update
\* and was refused with NotRegistered; the log holds the registration only.
C12_Witness ==
    /\ last = [op |-> "update", who |-> "o2", res |-> "NotRegistered"]
    /\ HasRecord("o1")
    /\ ~HasRecord("o2")
    /\ events = <<ArtistRegistered("o1", "n1")>>

\* C13: for every record and content x, when AssetsAdd(x) succeeds and
\* AssetsRemove(x) follows at once, the removal succeeds and the assets are, as
\* a set, those before the addition, also when the hash of x was already
\* among them.
C13_AddRemoveRoundTrip ==
    \A o \in Owners, x \in Contents :
        HasRecord(o)
          => LET r1  == update(Storage, o, AssetsAdd(x))
                 st1 == with_storage_layer(Storage, r1)
                 r2  == update(st1, o, AssetsRemove(x))
                 st2 == with_storage_layer(st1, r2)
                 before == RecordOf(o).assets
                 after  == st2.artistOf[o][1].assets
             IN  r1.res = Ok
                   => /\ r2.res = Ok
                      /\ {after[i] : i \in 1..Len(after)}
                           = {before[i] : i \in 1..Len(before)}

\* C13 witness: "o1" registered with the asset "x1", added "x3", whose hash is
\* that of "x1", and removed "x3" at once; the assets are again the one hash.
C13_Witness ==
    /\ events = <<ArtistRegistered("o1", "n1"),
                  ArtistUpdated("o1", AssetsAdd("x3")),
                  ArtistUpdated("o1", AssetsRemove("x3"))>>
    /\ HasRecord("o1")
    /\ RecordOf("o1").assets = <<Hash("x1")>>

\* C14: an artist can be retrieved by account id and by name: while an owner
\* holds a record, get_artist_by_id of the owner returns it and
\* get_artist_by_name of its main_name returns that same record.
C14_RetrievedByIdOrName ==
    \A o \in Owners :
        HasRecord(o)
          => /\ get_artist_by_id(Storage, o) = Some(RecordOf(o))
             /\ get_artist_by_name(Storage, RecordOf(o).main_name) = Some(RecordOf(o))

\* C15: from a successful register to the owner's next successful unregister
\* the record keeps its main_name, owner and registered_at, whatever updates
\* (successful or refused), refused calls and external verification happen.
C15_ImmutableFields ==
    /\ [][\A o \in Owners :
            (HasRecord(o)
               /\ ~(last'.op = "unregister" /\ last'.who = o /\ last'.res = Ok))
              => /\ artistOf'[o] # None
                 /\ artistOf'[o][1].main_name = RecordOf(o).main_name
                 /\ artistOf'[o][1].owner = RecordOf(o).owner
                 /\ artistOf'[o][1].registered_at = RecordOf(o).registered_at]_vars
    /\ [](\A o \in Owners, data \in UpdatableData :
            HasRecord(o)
              => LET st1 == with_storage_layer(Storage, update(Storage, o, data))
                 IN  /\ st1.artistOf[o] # None
                     /\ st1.artistOf[o][1].main_name = RecordOf(o).main_name
                     /\ st1.artistOf[o][1].owner = RecordOf(o).owner
                     /\ st1.artistOf[o][1].registered_at = RecordOf(o).registered_at)

\* C15 witness: "o1" registered "n2" at block 0, set its alias to "n1", was
\* verified, and had an update refused at a later block; the record still
\* holds "n2", "o1" and block 0.
C15_Witness ==
    /\ last = [op |-> "update", who |-> "o1", res |-> "NotFound"]
    /\ events = <<ArtistRegistered("o1", "n2"), ArtistUpdated("o1", Alias(Some("n1")))>>
    /\ now > 0
    /\ HasRecord("o1")
    /\ RecordOf("o1").verified_at # None
    /\ RecordOf("o1").alias = Some("n1")
    /\ RecordOf("o1").main_name = "n2"
    /\ RecordOf("o1").owner = "o1"
    /\ RecordOf("o1").registered_at = 0

\* C16: a successful register, update or unregister appends exactly one event
\* to the log, ArtistRegistered with the owner and main_name, ArtistUpdated
\* with the owner and the variant exactly as supplied (raw, not hashed),
\* ArtistUnregistered with the owner; a refused call appends none.
C16_Events ==
    /\ [][LET call == last'.op \in {"register", "update", "unregister"}
              o    == last'.who
          IN  /\ (call /\ last'.res = Ok /\ last'.op = "register")
                   => events' = Append(events,
                                       ArtistRegistered(o, artistOf'[o][1].main_name))
              /\ (call /\ last'.res = Ok /\ last'.op = "update")
                   => \E data \in UpdatableData :
                         events' = Append(events, ArtistUpdated(o, data))
              /\ (call /\ last'.res = Ok /\ last'.op = "unregister")
                   => events' = Append(events, ArtistUnregistered(o))
              /\ ~(call /\ last'.res = Ok) => events' = events]_vars
    /\ [](\A o \in Owners :
            /\ \A data \in UpdatableData :
                 LET r == update(Storage, o, data)
                 IN  with_storage_layer(Storage, r).events
                       = IF r.res = Ok THEN Append(events, ArtistUpdated(o, data))
                         ELSE events
            /\ \A n \in Names, genres \in DataGenres, assets \in DataAssets :
                 LET r == register(Storage, o, n, None, genres, None, assets)
                 IN  with_storage_layer(Storage, r).events
                       = IF r.res = Ok THEN Append(events, ArtistRegistered(o, n))
                         ELSE events
            /\ LET r == unregister(Storage, o)
               IN  with_storage_layer(Storage, r).events
                     = IF r.res = Ok THEN Append(events, ArtistUnregistered(o))
                       ELSE events)

\* C16 witness: "o1" registered, added the asset "x3" and unregistered; the
\* log holds the three events, the second with "x3" itself.
C16_Witness ==
    /\ last = [op |-> "unregister", who |-> "o1", res |-> Ok]
    /\ events = <<ArtistRegistered("o1", "n1"),
                  ArtistUpdated("o1", AssetsAdd("x3")),
                  ArtistUnregistered("o1")>>
    /\ Hash("x3") # "x3"

\* C17: Alias(a) by an owner with a record always succeeds, for Some and for
\* None, replaces the alias and changes nothing else; no uniqueness is
\* enforced: the alias may be one another owner holds, or another record's
\* main_name.
C17_SetAlias ==
    \A o \in Owners, a \in OptionOf(Names) :
        HasRecord(o)
          => LET r   == update(Storage, o, Alias(a))
                 st1 == with_storage_layer(Storage, r)
             IN  /\ r.res = Ok
                 /\ st1.artistOf
                      = [artistOf EXCEPT ![o] = Some([RecordOf(o) EXCEPT !.alias = a])]
                 /\ st1.artistNameOf = artistNameOf
                 /\ st1.free = free
                 /\ st1.reserved = reserved

\* C17 witness: "o1" holds the main_name "n1" and "o2" has set its alias to
\* "n1"; "o1" can set the same alias too.
C17_Witness ==
    /\ last = [op |-> "update", who |-> "o2", res |-> Ok]
    /\ HasRecord("o1")
    /\ HasRecord("o2")
    /\ RecordOf("o1").main_name = "n1"
    /\ RecordOf("o2").alias = Some("n1")
    /\ with_storage_layer(Storage, update(Storage, "o1", Alias(Some("n1"))))
         .artistOf["o1"][1].alias = RecordOf("o2").alias

\* C18: GenresAdd(tag) on a record fails with Full exactly when the record
\* holds MaxGenres genres, even if the tag is among them; fails with
\* NotUniqueGenre exactly when it holds fewer and the tag is among them;
\* otherwise it succeeds and the tag is appended at the end.
C18_GenresAdd ==
    \A o \in Owners, tag \in GenreTags :
        HasRecord(o)
          => LET genres  == RecordOf(o).genres
                 present == \E i \in 1..Len(genres) : genres[i] = tag
                 r       == update(Storage, o, GenresAdd(tag))
                 st1     == with_storage_layer(Storage, r)
             IN  /\ r.res = IF Len(genres) = MaxGenres THEN "Full"
                            ELSE IF present THEN "NotUniqueGenre"
                            ELSE Ok
                 /\ st1.artistOf[o][1].genres
                      = IF r.res = Ok THEN genres \o <<tag>> ELSE genres

\* C18 witness: "o1" registered with "g1" and "g2", an update was refused with
\* Full and nothing else happened; GenresAdd of "g1", which the record holds,
\* is refused with Full.
C18_Witness ==
    /\ last = [op |-> "update", who |-> "o1", res |-> "Full"]
    /\ events = <<ArtistRegistered("o1", "n1")>>
    /\ RecordOf("o1").genres = <<"g1", "g2">>
    /\ RecordOf("o1").assets = <<>>
    /\ update(Storage, "o1", GenresAdd("g1")).res = "Full"

\* C19: AssetsAdd(x) on a record fails with Full exactly when the record holds
\* MaxAssets assets; otherwise it succeeds and appends the hash of x at the
\* end, whether or not that hash is already stored.
C19_AssetsAdd ==
    \A o \in Owners, x \in Contents :
        HasRecord(o)
          => LET assets == RecordOf(o).assets
                 r      == update(Storage, o, AssetsAdd(x))
                 st1    == with_storage_layer(Storage, r)
             IN  /\ r.res = IF Len(assets) = MaxAssets THEN "Full" ELSE Ok
                 /\ st1.artistOf[o][1].assets
                      = IF r.res = Ok THEN assets \o <<Hash(x)>> ELSE assets

\* C19 witness: "o1" registered without assets and added "x1" twice; both
\* calls succeeded and the record holds the hash of "x1" twice.
C19_Witness ==
    /\ last = [op |-> "update", who |-> "o1", res |-> Ok]
    /\ events = <<ArtistRegistered("o1", "n1"),
                  ArtistUpdated("o1", AssetsAdd("x1")),
                  ArtistUpdated("o1", AssetsAdd("x1"))>>
    /\ RecordOf("o1").assets = <<Hash("x1"), Hash("x1")>>

\* new is old without the first occurrence of e: one entry less, the entries
\* before it and after it with their values and in their order.
FirstRemoved(old, new, e) ==
    /\ Len(new) = Len(old) - 1
    /\ \E p \in 1..Len(old) :
          /\ old[p] = e
          /\ \A i \in 1..(p - 1) : old[i] # e /\ new[i] = old[i]
          /\ \A i \in p..Len(new) : new[i] = old[i + 1]

C21_NeverFailing ==
    \A o \in Owners :
        HasRecord(o)
          => /\ \A a \in OptionOf(Names) : update(Storage, o, Alias(a)).res = Ok
             /\ \A d \in OptionOf(Contents) :
                  LET r == update(Storage, o, Description(d))
                  IN  /\ r.res = Ok
                      /\ r.st.artistOf[o][1].description
                           = IF d = None THEN None ELSE Some(Hash(d[1]))
             /\ \A clear \in {GenresClear, AssetsClear} :
                  LET r1  == update(Storage, o, clear)
                      st1 == with_storage_layer(Storage, r1)
                      r2  == update(st1, o, clear)
                      st2 == with_storage_layer(st1, r2)
                      cleared == IF clear = GenresClear
                                 THEN st1.artistOf[o][1].genres
                                 ELSE st1.artistOf[o][1].assets
                  IN  /\ r1.res = Ok
                      /\ cleared = <<>>
                      /\ r2.res = Ok
                      /\ st2.artistOf = st1.artistOf

\* C21 witness: "o1", verified, set its description to "x1" and cleared its
\* two genres; the record holds the hash of "x1", no genre and its two
\* assets.
C21_Witness ==
    /\ last = [op |-> "update", who |-> "o1", res |-> Ok]
    /\ events = <<ArtistRegistered("o1", "n1"),
                  ArtistUpdated("o1", Description(Some("x1"))),
                  ArtistUpdated("o1", GenresClear)>>
    /\ RecordOf("o1").verified_at # None
    /\ RecordOf("o1").description = Some(Hash("x1"))
    /\ RecordOf("o1").genres = <<>>
    /\ Len(RecordOf("o1").assets) = 2

\* C22: the hash is the same at every call site: for every content x of the
\* batch of a successful register, AssetsRemove(x) on that record, at once or
\* after an AssetsAdd, succeeds and removes the entry stored for x at
\* registration; and the hash AssetsAdd(x) stores is the one registration
\* stores for x.
C22_FingerprintConsistency ==
    /\ \A o \in Owners, raw_assets \in SeqUpTo(Contents, MaxAssets) :
          LET r0  == register(Storage, o, "n1", None, <<>>, None, raw_assets)
              st0 == with_storage_layer(Storage, r0)
              stored == st0.artistOf[o][1].assets
          IN  r0.res = Ok
                => \A i \in 1..Len(raw_assets) :
                      \A mid \in {NoData} \cup {AssetsAdd(x) : x \in Contents} :
                         LET st1 == IF mid = NoData THEN st0
                                    ELSE with_storage_layer(st0, update(st0, o, mid))
                             r2  == update(st1, o, AssetsRemove(raw_assets[i]))
                             before == st1.artistOf[o][1].assets
                             after  == with_storage_layer(st1, r2).artistOf[o][1].assets
                         IN  /\ r2.res = Ok
                             /\ before[i] = stored[i]
                             /\ after = SubSeq(before, 1, i - 1)
                                          \o SubSeq(before, i + 1, Len(before))
    /\ \A o \in Owners, x \in Contents :
          HasRecord(o)
            => LET r == update(Storage, o, AssetsAdd(x))
                   assets == r.st.artistOf[o][1].assets
               IN  r.res = Ok
                     => <<assets[Len(assets)]>> = checked_hash_assets(<<x>>).hashed

\* C22 witness: "o1" registered with the assets "x1" and "x2" and removed
\* "x2"; the hash stored for "x1" is left.
C22_Witness ==
    /\ last = [op |-> "update", who |-> "o1", res |-> Ok]
    /\ events = <<ArtistRegistered("o1", "n1"),
                  ArtistUpdated("o1", AssetsRemove("x2"))>>
    /\ RecordOf("o1").assets = <<Hash("x1")>>

\* C23: register checks in the order AlreadyRegistered, NameUnavailable, the
\* reservation of the deposit, the assets, the genres: duplicate assets with
\* duplicate genres give NotUniqueAsset, and an insufficient balance with
\* duplicate assets gives the balance error.  The assets are refused exactly
\* when two entries of the batch have the same hash, equal or not as bytes,
\* the genres exactly when a tag occurs twice.
C23_RegisterOrder ==
    \A o \in Owners, n \in Names, genres \in OrderGenres, assets \in OrderAssets :
        LET r == register(Storage, o, n, None, genres, None, assets)
            same_hash == \E i, j \in 1..Len(assets) :
                            i # j /\ Hash(assets[i]) = Hash(assets[j])
            same_tag  == \E i, j \in 1..Len(genres) : i # j /\ genres[i] = genres[j]
        IN  r.res = IF HasRecord(o) THEN "AlreadyRegistered"
                    ELSE IF artistNameOf[n] # None THEN "NameUnavailable"
                    ELSE IF free[o] < BaseDeposit THEN "InsufficientBalance"
                    ELSE IF same_hash THEN "NotUniqueAsset"
                    ELSE IF same_tag THEN "NotUniqueGenre"
                    ELSE Ok

\* C23 witness: "o1", who can pay, was refused with NotUniqueAsset; a batch of
\* two contents with one hash, with a tag given twice, is refused so for "o1"
\* and with the balance error for "o3", who cannot pay.
C23_Witness ==
    /\ last = [op |-> "register", who |-> "o1", res |-> "NotUniqueAsset"]
    /\ ~HasRecord("o1")
    /\ ~HasRecord("o3")
    /\ register(Storage, "o1", "n1", None, <<"g1", "g1">>, None, <<"x1", "x3">>).res
         = "NotUniqueAsset"
    /\ register(Storage, "o3", "n1", None, <<"g1", "g1">>, None, <<"x1", "x3">>).res
         = "InsufficientBalance"

\* C24: a successful register(o, main_name, alias, genres, description,
\* raw_assets) at block now stores under the key o the record with owner o,
\* registered_at now, verified_at None, main_name, alias and genres as
\* supplied, the hash of the description (None if none), the hashes of
\* raw_assets in their order, and no contracts.
C24_RegisteredRecord ==
    \A o \in Owners, n \in Names, ad \in {<<None, None>>, <<Some("n2"), Some("x3")>>},
       genres \in DataGenres, raw_assets \in DataAssets :
        LET a == ad[1]
            d == ad[2]
            r == register(Storage, o, n, a, genres, d, raw_assets)
        IN  r.res = Ok
              => with_storage_layer(Storage, r).artistOf
                   = [artistOf EXCEPT ![o] =
                        Some([owner         |-> o,
                              registered_at |-> now,
                              verified_at   |-> None,
                              main_name     |-> n,
                              alias         |-> a,
                              genres        |-> genres,
                              description   |-> IF d = None THEN None
                                                ELSE Some(Hash(d[1])),
                              assets        |-> [i \in 1..Len(raw_assets) |->
                                                   Hash(raw_assets[i])],
                              contracts     |-> <<>>])]

\* C24 witness: "o1" registered "n1" at block 0 with two genres and two
\* assets, no alias and no description; its record holds exactly that.
C24_Witness ==
    /\ last = [op |-> "register", who |-> "o1", res |-> Ok]
    /\ events = <<ArtistRegistered("o1", "n1")>>
    /\ now = 0
    /\ artistOf["o1"] = Some([owner         |-> "o1",
                              registered_at |-> 0,
                              verified_at   |-> None,
                              main_name     |-> "n1",
                              alias         |-> None,
                              genres        |-> <<"g1", "g2">>,
                              description   |-> None,
                              assets        |-> <<Hash("x1"), Hash("x2")>>,
                              contracts     |-> <<>>])

\* C25: a successful update changes, in the caller's record, only the field
\* its variant names (alias, genres, description or assets); in particular
\* verified_at and contracts never change; and update changes neither the set
\* of owners with a record, nor another owner's record, nor any balance.
C25_UpdateFrame ==
    \A o \in Owners, data \in UpdatableData :
        HasRecord(o)
          => LET r   == update(Storage, o, data)
                 st1 == with_storage_layer(Storage, r)
                 target == CASE data.field = "Alias" -> "alias"
                             [] data.field = "Genres" -> "genres"
                             [] data.field = "Description" -> "description"
                             [] data.field = "Assets" -> "assets"
             IN  /\ st1.free = free
                 /\ st1.reserved = reserved
                 /\ st1.artistNameOf = artistNameOf
                 /\ \A p \in Owners :
                       /\ (st1.artistOf[p] # None) = HasRecord(p)
                       /\ p # o => st1.artistOf[p] = artistOf[p]
                 /\ \A f \in DOMAIN RecordOf(o) \ {target} :
                       st1.artistOf[o][1][f] = RecordOf(o)[f]

\* C25 witness: "o1", verified and registered with two genres, cleared its
\* assets; the genres and the verification are as before.
C25_Witness ==
    /\ last = [op |-> "update", who |-> "o1", res |-> Ok]
    /\ events = <<ArtistRegistered("o1", "n1"), ArtistUpdated("o1", AssetsClear)>>
    /\ RecordOf("o1").verified_at = Some(0)
    /\ RecordOf("o1").genres = <<"g1", "g2">>
    /\ RecordOf("o1").assets = <<>>
    /\ RecordOf("o1").contracts = <<>>

C27_DepositAccounting ==
    \A o \in Owners :
        /\ reserved[o] = IF HasRecord(o) THEN BaseDeposit ELSE 0
        /\ free[o] + reserved[o] = InitialBalance(o)

\* C27 witness: "o1" registered and unregistered and has nothing reserved;
\* "o2" then registered and has BaseDeposit reserved.
C27_Witness ==
    /\ ~HasRecord("o1")
    /\ reserved["o1"] = 0
    /\ free["o1"] = FundedBalance
    /\ HasRecord("o2")
    /\ reserved["o2"] = BaseDeposit
    /\ free["o2"] = TightBalance - BaseDeposit
    /\ Len(events) = 3
    /\ events[2] = ArtistUnregistered("o1")

\* The number of rounds of owner o open after the first k events: its
\* ArtistRegistered events less its ArtistUnregistered events.
OpenRounds(o, k) ==
    Cardinality({i \in 1..k : events[i].id = o /\ events[i].kind = "ArtistRegistered"})
      - Cardinality({i \in 1..k : events[i].id = o /\ events[i].kind = "ArtistUnregistered"})

\* C28: in the event log the events of one owner come in rounds: an
\* ArtistRegistered, then any number of ArtistUpdated, then at most one
\* ArtistUnregistered; ArtistUpdated and ArtistUnregistered occur only in an
\* open round, ArtistRegistered only when none is open; and the owner has a
\* record exactly when its last round is open.
C28_EventRounds ==
    \A o \in Owners :
        /\ \A k \in 1..Len(events) :
              events[k].id = o
                => /\ events[k].kind \in {"ArtistRegistered", "ArtistUpdated",
                                          "ArtistUnregistered"}
                   /\ OpenRounds(o, k - 1)
                        = IF events[k].kind = "ArtistRegistered" THEN 0 ELSE 1
        /\ OpenRounds(o, Len(events)) = IF HasRecord(o) THEN 1 ELSE 0

\* C28 witness: the log holds one full round of "o1": registered, updated,
\* unregistered.
C28_Witness ==
    /\ Len(events) = 3
    /\ events[1] = ArtistRegistered("o1", "n2")
    /\ events[2] = ArtistUpdated("o1", Alias(Some("n1")))
    /\ events[3] = ArtistUnregistered("o1")
    /\ ~HasRecord("o1")

\* C29: the block number never decreases and every stored record has
\* registered_at <= now, so the subtraction now - registered_at of
\* can_unregister is never evaluated with now < registered_at.
C29_NoUnderflow ==
    /\ [][now' >= now]_vars
    /\ [](\A o \in Owners : HasRecord(o) => RecordOf(o).registered_at <= now)

\* C29 witness: an owner who registered after block 0 called unregister in
\* the block of its registration; the elapsed time is 0 and the call was
\* refused with PeriodNotPassed.
C29_Witness ==
    /\ last = [op |-> "unregister", who |-> "o1", res |-> "PeriodNotPassed"]
    /\ HasRecord("o1")
    /\ RecordOf("o1").registered_at = now
    /\ now > 0

\* The owner has unregistered before: the log holds its ArtistUnregistered.
HasUnregistered(o) == \E i \in 1..Len(events) : events[i] = ArtistUnregistered(o)

\* C30: when an owner who unregistered registers again, at block t2, the new
\* record has registered_at = t2, is unverified and holds only what the
\* second register supplied; and unregister by that owner is refused with
\* PeriodNotPassed while now - t2 < UnregisterPeriod, however long the earlier
\* registration lasted.
C30_CooldownRestarts ==
    /\ [][\A o \in Owners :
            (last'.op = "register" /\ last'.who = o /\ last'.res = Ok /\ HasUnregistered(o))
              => artistOf'[o]
                   = Some([owner         |-> o,
                           registered_at |-> now,
                           verified_at   |-> None,
                           main_name     |-> events'[Len(events')].name,
                           alias         |-> None,
                           genres        |-> <<>>,
                           description   |-> None,
                           assets        |-> <<>>,
                           contracts     |-> <<>>])]_vars
    /\ [](\A o \in Owners :
            (HasRecord(o) /\ HasUnregistered(o) /\ RecordOf(o).verified_at = None
               /\ now - RecordOf(o).registered_at < UnregisterPeriod)
              => unregister(Storage, o).res = "PeriodNotPassed")

\* C30 witness: "o1" registered "n1" at block 0, unregistered and registered
\* "n2" at block UnregisterPeriod; one block later, more than UnregisterPeriod
\* after the first registration, its unregister is refused with
\* PeriodNotPassed.
C30_Witness ==
    /\ events = <<ArtistRegistered("o1", "n1"),
                  ArtistUnregistered("o1"),
                  ArtistRegistered("o1", "n2")>>
    /\ RecordOf("o1").registered_at = UnregisterPeriod
    /\ RecordOf("o1").main_name = "n2"
    /\ RecordOf("o1").verified_at = None
    /\ now = UnregisterPeriod + 1
    /\ unregister(Storage, "o1").res = "PeriodNotPassed"

\* C31: a register, update or unregister call by one owner, successful or
\* refused, changes neither the record nor the free nor the reserved balance
\* of any other owner, whatever calls of other owners came before.
C31_Isolation ==
    /\ [][\A a, b \in Owners :
            (a # b /\ last'.op \in {"register", "update", "unregister"} /\ last'.who = a)
              => /\ artistOf'[b] = artistOf[b]
                 /\ free'[b] = free[b]
                 /\ reserved'[b] = reserved[b]]_vars
    /\ [](\A a \in Owners :
            LET Untouched(st) ==
                    \A b \in Owners \ {a} :
                       /\ st.artistOf[b] = artistOf[b]
                       /\ st.free[b] = free[b]
                       /\ st.reserved[b] = reserved[b]
            IN  /\ \A data \in UpdatableData :
                      Untouched(with_storage_layer(Storage, update(Storage, a, data)))
                /\ Untouched(with_storage_layer(Storage, unregister(Storage, a)))
                /\ \A n \in Names, genres \in LifecycleGenres, assets \in LifecycleAssets :
                      Untouched(with_storage_layer(
                                  Storage, register(Storage, a, n, None, genres, None, assets))))

\* C31 witness: "o1" and "o2" registered and "o1" then set its alias; the
\* record and the balances of "o2" are those of its registration.
C31_Witness ==
    /\ last = [op |-> "update", who |-> "o1", res |-> Ok]
    /\ events = <<ArtistRegistered("o1", "n1"),
                  ArtistRegistered("o2", "n2"),
                  ArtistUpdated("o1", Alias(Some("n1")))>>
    /\ RecordOf("o1").alias = Some("n1")
    /\ RecordOf("o2").alias = None
    /\ RecordOf("o2").main_name = "n2"
    /\ free["o2"] = TightBalance - BaseDeposit
    /\ reserved["o2"] = BaseDeposit

\* unregister by o would succeed now.
CanUnregisterNow(o) == unregister(Storage, o).res = Ok

Unverified(o) == HasRecord(o) /\ RecordOf(o).verified_at = None

\* C32: for an unverified record registered at block r, unregister succeeds
\* at every block from r + UnregisterPeriod on and returns the deposit; once
\* it would succeed it keeps doing so as long as the record stays registered
\* and unverified, whatever is updated; so, the block number advancing, every
\* owner with an unverified record reaches a state where its unregister
\* succeeds, unless the record is verified.
C32_EventuallyUnregistrable ==
    /\ [](\A o \in Owners :
            (Unverified(o) /\ now >= RecordOf(o).registered_at + UnregisterPeriod)
              => LET r == unregister(Storage, o)
                 IN  /\ r.res = Ok
                     /\ r.st.artistOf[o] = None
                     /\ r.st.reserved[o] = 0
                     /\ r.st.free[o] = free[o] + BaseDeposit)
    /\ [][\A o \in Owners :
            (CanUnregisterNow(o) /\ Unverified(o)') => CanUnregisterNow(o)']_vars
    /\ \A o \in Owners :
          Unverified(o) ~> (CanUnregisterNow(o) \/ (HasRecord(o) /\ ~Unverified(o)))

\* C32 witness: "o1" registered at block 0 and updated its alias; at block
\* UnregisterPeriod its record is unverified and its unregister would
\* succeed.
C32_Witness ==
    /\ last = [op |-> "tick", who |-> "", res |-> Ok]
    /\ events = <<ArtistRegistered("o1", "n1"), ArtistUpdated("o1", Alias(Some("n1")))>>
    /\ Unverified("o1")
    /\ RecordOf("o1").registered_at = 0
    /\ now = UnregisterPeriod
    /\ CanUnregisterNow("o1")

=============================================================================
